---- MODULE Spec2Model ----
(***************************************************************************)
(* A model of the CyCAx Blender worker: the polling loop of main.py, the   *)
(* job-server client (client.py / main.py CycaxClient) and the assembler   *)
(* (assembler.py / main.py AssemblyBlender).                               *)
(*                                                                         *)
(* Python strings are sequences of one-character strings, so that          *)
(* str.endswith, str.replace and iteration over a str are computed, not    *)
(* assumed.  Python list indices are 0-based, the sequences here 1-based:  *)
(* rotation[0] of the source is rotation[1] here.                          *)
(***************************************************************************)
EXTENDS Integers, Sequences, FiniteSets, TLC

VARIABLES
    pc,         \* where the worker process is
    variant,    \* "main": the classes of main.py; "package": those of client.py / assembler.py
    taskState,  \* Job Server: job id -> state of its "blender" task
    artifacts,  \* Job Server: job id -> the artifact listing it answers with
    jobs,       \* the snapshot returned by the last list_jobs
    jobIdx,     \* position of `for job in jobs`
    asm,        \* the AssemblyBlender instance of the current build
    fs,         \* local filesystem: path -> content, for the files that exist
    scene,      \* the Scene Engine's objects (bpy.data.objects), in import order
    dl,         \* frame of the running download_artifacts call
    up,         \* frame of the running upload_artifacts call
    mv,         \* frame of the running _move call
    calls,      \* collaborator calls issued by the last step, in order
    crash,      \* the uncaught exception that ended the process, or "none"
    hist,       \* bookkeeping about the current cycle / build, read only by properties
    log         \* the kinds of calls of the current build, in order; read only by properties

vars == <<pc, variant, taskState, artifacts, jobs, jobIdx, asm, fs, scene, dl, up, mv, calls, crash, hist, log>>

----------------------------------------------------------------------------
(* Bounds of the model. *)

\* rotmax components are drawn from 0..MaxExtent (and the spec's example value)
MaxExtent == 2
\* longest rotate list drawn for a _move call
MaxRotate == 2
\* most files in the directory handed to upload_artifacts
MaxFiles == 3
\* most entries in an artifact listing handed to download_artifacts
MaxArtifacts == 2
\* builds one worker process starts before the model stops following it
MaxBuilds == 2

----------------------------------------------------------------------------
(* Strings. *)

Slash == <<"/">>
DotStl == <<".", "s", "t", "l">>
DotBlend == <<".", "b", "l", "e", "n", "d">>
DotJson == <<".", "j", "s", "o", "n">>
BlenderStr == <<"b", "l", "e", "n", "d", "e", "r">>
PART_NO_TEMPLATE == <<"P", "n", "-", "-", "p", "N">>
BasePath == <<"/", "t", "m", "p">>
P1 == <<"P", "1">>
P2 == <<"P", "2">>
A1 == <<"A", "1">>
A2 == <<"A", "2">>
J1 == <<"J", "1">>
J2 == <<"J", "2">>
J3 == <<"J", "3">>

\* str.endswith
EndsWith(s, suffix) ==
    /\ Len(suffix) <= Len(s)
    /\ SubSeq(s, Len(s) - Len(suffix) + 1, Len(s)) = suffix

\* str.startswith at position i
MatchAt(s, i, old) ==
    /\ i + Len(old) - 1 <= Len(s)
    /\ SubSeq(s, i, i + Len(old) - 1) = old

RECURSIVE ReplaceFrom(_, _, _, _)
ReplaceFrom(s, i, old, new) ==
    IF i > Len(s) THEN <<>>
    ELSE IF Len(old) > 0 /\ MatchAt(s, i, old)
         THEN new \o ReplaceFrom(s, i + Len(old), old, new)
         ELSE <<s[i]>> \o ReplaceFrom(s, i + 1, old, new)

\* str.replace(old, new): every non-overlapping occurrence, left to right
Replace(s, old, new) == ReplaceFrom(s, 1, old, new)

\* pathlib: base / a / b as a string
PathJoin(dir, name) == dir \o Slash \o name

\* Python values handed as extensions_only: None, a list of str, or a str
PyNone == [kind |-> "none", val |-> <<>>]
PyList(l) == [kind |-> "list", val |-> l]
PyStr(s) == [kind |-> "str", val |-> s]

\* `not v`
Falsy(v) == v.kind = "none" \/ Len(v.val) = 0

\* `for ext in v`: the entries of a list, the characters of a str
Iterate(v) == IF v.kind = "str" THEN [i \in 1..Len(v.val) |-> <<v.val[i]>>] ELSE v.val

check_extension(extensions_only, aid) ==
    IF Falsy(extensions_only) THEN TRUE
    ELSE \E i \in 1..Len(Iterate(extensions_only)) : EndsWith(aid, Iterate(extensions_only)[i])

----------------------------------------------------------------------------
(* PlacementEngine: AssemblyBlender._swap_*_ and _move. *)

\* one attempt more
RETRIES_Four == 3 + 1

RETRIES == 3
ROT_STEPS == 3

\* the extents left as they are
RECURSIVE _swap_xy__NoExtentSwap(_, _, _)
_swap_xy__NoExtentSwap(rotation, rot, rotmax) ==
    IF rot = 0 THEN <<rotation, rotmax>>
    ELSE LET max_x == rotmax[1]
             rotation1 == [rotation EXCEPT ![1] = rotation[2], ![2] = max_x - rotation[1]]
         IN _swap_xy__NoExtentSwap(rotation1, rot - 1, rotmax)

RECURSIVE _swap_xy_(_, _, _)
_swap_xy_(rotation, rot, rotmax) ==
    IF rot = 0 THEN <<rotation, rotmax>>
    ELSE LET max_x == rotmax[1]
             rotation1 == [rotation EXCEPT ![1] = rotation[2], ![2] = max_x - rotation[1]]
             rotmax1 == [rotmax EXCEPT ![1] = rotmax[2], ![2] = rotmax[1]]
         IN _swap_xy_(rotation1, rot - 1, rotmax1)

\* the reflection term added instead of subtracted
RECURSIVE _swap_xz__SignSlip(_, _, _)
_swap_xz__SignSlip(rotation, rot, rotmax) ==
    IF rot = 0 THEN <<rotation, rotmax>>
    ELSE LET max_z == rotmax[3]
             rotation1 == [rotation EXCEPT ![1] = max_z + rotation[3], ![3] = rotation[1]]
             rotmax1 == [rotmax EXCEPT ![1] = rotmax[3], ![3] = rotmax[1]]
         IN _swap_xz__SignSlip(rotation1, rot - 1, rotmax1)

RECURSIVE _swap_xz_(_, _, _)
_swap_xz_(rotation, rot, rotmax) ==
    IF rot = 0 THEN <<rotation, rotmax>>
    ELSE LET max_z == rotmax[3]
             rotation1 == [rotation EXCEPT ![1] = max_z - rotation[3], ![3] = rotation[1]]
             rotmax1 == [rotmax EXCEPT ![1] = rotmax[3], ![3] = rotmax[1]]
         IN _swap_xz_(rotation1, rot - 1, rotmax1)

\* the reflection term of the y/z pair added instead of subtracted
RECURSIVE _swap_yz__SignSlip(_, _, _)
_swap_yz__SignSlip(rotation, rot, rotmax) ==
    IF rot = 0 THEN <<rotation, rotmax>>
    ELSE LET max_y == rotmax[2]
             rotation1 == [rotation EXCEPT ![2] = rotation[3], ![3] = max_y + rotation[2]]
             rotmax1 == [rotmax EXCEPT ![3] = rotmax[2], ![2] = rotmax[3]]
         IN _swap_yz__SignSlip(rotation1, rot - 1, rotmax1)

\* max_y read after the extents were exchanged
RECURSIVE _swap_yz__MaxAfterSwap(_, _, _)
_swap_yz__MaxAfterSwap(rotation, rot, rotmax) ==
    IF rot = 0 THEN <<rotation, rotmax>>
    ELSE LET rotmax1 == [rotmax EXCEPT ![3] = rotmax[2], ![2] = rotmax[3]]
             max_y == rotmax1[2]
             rotation1 == [rotation EXCEPT ![2] = rotation[3], ![3] = max_y - rotation[2]]
         IN _swap_yz__MaxAfterSwap(rotation1, rot - 1, rotmax1)

RECURSIVE _swap_yz_(_, _, _)
_swap_yz_(rotation, rot, rotmax) ==
    IF rot = 0 THEN <<rotation, rotmax>>
    ELSE LET max_y == rotmax[2]
             rotation1 == [rotation EXCEPT ![2] = rotation[3], ![3] = max_y - rotation[2]]
             rotmax1 == [rotmax EXCEPT ![3] = rotmax[2], ![2] = rotmax[3]]
         IN _swap_yz_(rotation1, rot - 1, rotmax1)

----------------------------------------------------------------------------
(* Frames and collaborator calls. *)

\* one collaborator call: the operation, its arguments, and how it ended ("ok";
\* "status": the server answered with an error status; "raise": an exception)
CallRes(op, arg, res) == [op |-> op, arg |-> arg, res |-> res]
Call(op, arg) == CallRes(op, arg, "ok")

\* what kind of call an operation is; "reset": a new cycle or a new build begins
Phase(op) ==
    CASE op \in {"GET_artifacts", "GET_artifact", "write"} -> "download"
      [] op \in {"stl_import", "rename"} -> "import"
      [] op = "rotate" -> "rotate"
      [] op = "translate" -> "translate"
      [] op = "set_material" -> "colour"
      [] op = "save_as_mainfile" -> "save"
      [] op = "upload_file" -> "upload"
      [] op = "set_task_state" -> "task"
      [] op \in {"list_jobs", "get_job_spec"} -> "reset"
      [] OTHER -> "none"

\* the log after the calls cs: a run of calls of one kind is logged once
RECURSIVE Logged(_, _)
Logged(l, cs) ==
    IF cs = <<>> THEN l
    ELSE LET ph == Phase(Head(cs).op)
         IN Logged(IF ph = "reset" THEN <<>>
                   ELSE IF ph = "none" \/ (l # <<>> /\ l[Len(l)] = ph) THEN l
                   ELSE Append(l, ph),
                   Tail(cs))

NoSpec == [name |-> <<>>, parts |-> <<>>]
\* {}: a dict without keys
EmptyDict == [k \in {} |-> 0]
NoAsm == [active |-> FALSE, name |-> <<>>, job_id |-> <<>>, spec |-> NoSpec,
          parts |-> EmptyDict, partIdx |-> 0]
NoMove == [rotmax |-> <<0, 0, 0>>, position |-> <<0, 0, 0>>, rotate |-> <<>>, idx |-> 0,
           rotation |-> <<0, 0, 0>>, ret |-> "none", rotmax0 |-> <<0, 0, 0>>]

\* entering _move: rotation = [0, 0, 0]; rotmax is the caller's list itself
MoveFrame(rotmax, position, rotate, ret) ==
    [rotmax |-> rotmax, position |-> position, rotate |-> rotate, idx |-> 1,
     rotation |-> <<0, 0, 0>>, ret |-> ret, rotmax0 |-> rotmax]

\* an axis that is none of x, y, z handled as z
MoveItemResult_DefaultZ(item, rotation, rotmax) ==
    IF item.axis = "x"
    THEN _swap_yz_(rotation, ROT_STEPS, rotmax) \o <<(<<Call("rotate", "X")>>)>>
    ELSE IF item.axis = "y"
    THEN _swap_xz_(rotation, ROT_STEPS, rotmax) \o <<(<<Call("rotate", "Y")>>)>>
    ELSE _swap_xy_(rotation, ROT_STEPS, rotmax) \o <<(<<Call("rotate", "Z")>>)>>

\* the body of `for item in rotate` for one item: <<rotation, rotmax, calls>>
MoveItemResult(item, rotation, rotmax) ==
    IF item.axis = "x"
    THEN _swap_yz_(rotation, ROT_STEPS, rotmax) \o <<(<<Call("rotate", "X")>>)>>
    ELSE IF item.axis = "y"
    THEN _swap_xz_(rotation, ROT_STEPS, rotmax) \o <<(<<Call("rotate", "Y")>>)>>
    ELSE IF item.axis = "z"
    THEN _swap_xy_(rotation, ROT_STEPS, rotmax) \o <<(<<Call("rotate", "Z")>>)>>
    ELSE <<rotation, rotmax, <<>>>>

\* the offset left out of the translation
TranslateValue_PositionOnly(rotation, position) == position

\* the value handed to bpy.ops.transform.translate
TranslateValue(rotation, position) ==
    <<rotation[1] + position[1], rotation[2] + position[2], rotation[3] + position[3]>>

\* rotmax is part_operation["rotmax"] itself (add passes the list, the swaps assign
\* into it), so the JobSpec held by the assembler sees every assignment
AliasRotmax(a, rotmax) ==
    IF a.active /\ a.partIdx \in 1..Len(a.spec.parts)
    THEN [a EXCEPT !.spec.parts[a.partIdx].rotmax = rotmax]
    ELSE a

\* one iteration of `for item in rotate`
MoveItem ==
    /\ pc = "move"
    /\ mv.idx <= Len(mv.rotate)
    /\ LET res == MoveItemResult(mv.rotate[mv.idx], mv.rotation, mv.rotmax)
       IN /\ mv' = [mv EXCEPT !.rotation = res[1], !.rotmax = res[2], !.idx = mv.idx + 1]
          /\ asm' = AliasRotmax(asm, res[2])
          /\ calls' = res[3]
    /\ log' = Logged(log, calls')
    /\ UNCHANGED <<pc, variant, taskState, artifacts, jobs, jobIdx, fs, scene, dl, up, crash, hist>>

\* after the loop: the single translate
MoveTranslate ==
    /\ pc = "move"
    /\ mv.idx > Len(mv.rotate)
    /\ calls' = <<Call("translate", TranslateValue(mv.rotation, mv.position))>>
    /\ pc' = mv.ret
    /\ log' = Logged(log, calls')
    /\ UNCHANGED <<variant, taskState, artifacts, jobs, jobIdx, asm, fs, scene, dl, up, mv, crash, hist>>

----------------------------------------------------------------------------
(* CycaxClient.download_artifacts. *)

\* dict.get(key) with a default
Get(d, key, default) == IF key \in DOMAIN d THEN d[key] ELSE default

\* the body of a file
Content(kind, tag) == [kind |-> kind, tag |-> tag]

\* an uncaught exception: the process ends (the loop of main.py has no handler)
Crash(cause) == pc' = "crashed" /\ crash' = cause

NoDownload == [job_id |-> <<>>, part_no |-> <<>>, extensions_only |-> PyNone, overwrite |-> FALSE,
               job_path |-> FALSE, part_path |-> <<>>, todo |-> <<>>, ret |-> "none"]

\* part_path: base_path / job_id if job_path, else base_path / part_no
PartPath(base_path, job_id, part_no, job_path) ==
    IF job_path THEN PathJoin(base_path, job_id) ELSE PathJoin(base_path, part_no)

\* entering download_artifacts
DownloadFrame(job_id, part_no, base_path, extensions_only, overwrite, job_path, ret) ==
    [job_id |-> job_id, part_no |-> part_no, extensions_only |-> extensions_only,
     overwrite |-> overwrite, job_path |-> job_path,
     part_path |-> PartPath(base_path, job_id, part_no, job_path), todo |-> <<>>, ret |-> ret]

\* artifact_obj.get("id"): None and "" are both false and nothing else is asked of them
ArtifactId(artifact_obj) == Get(artifact_obj, "id", <<>>)

\* the type of the artifact not asked for
Selected_AnyType(artifact_obj, extensions_only) ==
    /\ Len(ArtifactId(artifact_obj)) > 0
    /\ check_extension(extensions_only, ArtifactId(artifact_obj))

\* the condition of the `if` that selects an artifact
Selected(artifact_obj, extensions_only) ==
    /\ Len(ArtifactId(artifact_obj)) > 0
    /\ Get(artifact_obj, "type", "None") = "artifact"
    /\ check_extension(extensions_only, ArtifactId(artifact_obj))

\* artifact_path, as <<directory, file name>>
ArtifactPath(part_path, artifact_id, part_no) ==
    <<part_path, Replace(artifact_id, PART_NO_TEMPLATE, part_no)>>

\* the existence test left out
MustFetch_Always(files, artifact_path, overwrite) == TRUE

\* `if not artifact_path.exists() or overwrite`
MustFetch(files, artifact_path, overwrite) == artifact_path \notin DOMAIN files \/ overwrite

\* the artifact listings a Job Server may answer with
ArtStl == [id |-> PART_NO_TEMPLATE \o DotStl, type |-> "artifact"]
ArtJson == [id |-> PART_NO_TEMPLATE \o DotJson, type |-> "artifact"]
ArtOther == [id |-> PART_NO_TEMPLATE \o DotStl, type |-> "other"]
ArtNoId == [type |-> "artifact"]
ArtP1 == [id |-> P1 \o DotStl, type |-> "artifact"]
ArtifactObjs == {ArtStl, ArtJson, ArtOther, ArtNoId, ArtP1}

\* client.get(f"/jobs/{job_id}/artifacts"), mkdir, reply.json().get("data")
DownloadList ==
    /\ pc = "dl_list"
    /\ \E outcome \in {"ok", "status", "raise"} :
         \/ /\ outcome = "ok"
            /\ dl' = [dl EXCEPT !.todo = artifacts[dl.job_id]]
            /\ calls' = <<Call("GET_artifacts", dl.job_id), Call("mkdir", dl.part_path)>>
            /\ pc' = "dl_item"
            /\ UNCHANGED <<crash, hist>>
         \/ /\ outcome = "status"
            \* an error answer carries no "data": `for ... in None` raises TypeError
            /\ calls' = <<CallRes("GET_artifacts", dl.job_id, "status"), Call("mkdir", dl.part_path)>>
            /\ Crash("TypeError")
            /\ UNCHANGED <<dl, hist>>
         \/ /\ outcome = "raise"
            /\ calls' = <<CallRes("GET_artifacts", dl.job_id, "raise")>>
            /\ Crash("TransportError")
            /\ UNCHANGED <<dl, hist>>
    /\ log' = Logged(log, calls')
    /\ UNCHANGED <<variant, taskState, artifacts, jobs, jobIdx, asm, fs, scene, up, mv>>

\* one iteration of `for artifact_obj in reply.json().get("data")`
DownloadArtifact ==
    /\ pc = "dl_item"
    /\ dl.todo # <<>>
    /\ LET artifact_obj == Head(dl.todo)
           artifact_id == ArtifactId(artifact_obj)
           artifact_path == ArtifactPath(dl.part_path, artifact_id, dl.part_no)
           get(res) == CallRes("GET_artifact", <<dl.job_id, artifact_id>>, res)
       IN IF Selected(artifact_obj, dl.extensions_only) /\ MustFetch(fs, artifact_path, dl.overwrite)
          THEN \E outcome \in {"ok", "status", "raise"} :
                 \/ /\ outcome = "ok"
                    /\ fs' = (artifact_path :> Content("mesh", artifact_id)) @@ fs
                    /\ calls' = <<get("ok"), Call("write", artifact_path)>>
                    /\ dl' = [dl EXCEPT !.todo = Tail(dl.todo)]
                    /\ UNCHANGED <<pc, crash, hist>>
                 \/ /\ outcome = "status"
                    \* no raise_for_status: areply.content is the error body
                    /\ fs' = (artifact_path :> Content("error", artifact_id)) @@ fs
                    /\ calls' = <<get("status"), Call("write", artifact_path)>>
                    /\ dl' = [dl EXCEPT !.todo = Tail(dl.todo)]
                    /\ hist' = [hist EXCEPT !.clean = FALSE]
                    /\ UNCHANGED <<pc, crash>>
                 \/ /\ outcome = "raise"
                    /\ calls' = <<get("raise")>>
                    /\ Crash("TransportError")
                    /\ UNCHANGED <<fs, dl, hist>>
          ELSE /\ calls' = <<>>
               /\ dl' = [dl EXCEPT !.todo = Tail(dl.todo)]
               /\ UNCHANGED <<pc, fs, crash, hist>>
    /\ log' = Logged(log, calls')
    /\ UNCHANGED <<variant, taskState, artifacts, jobs, jobIdx, asm, scene, up, mv>>

\* the loop is over: download_artifacts returns
DownloadReturn ==
    /\ pc = "dl_item"
    /\ dl.todo = <<>>
    /\ pc' = dl.ret
    /\ calls' = <<>>
    /\ log' = Logged(log, calls')
    /\ UNCHANGED <<variant, taskState, artifacts, jobs, jobIdx, asm, fs, scene, dl, up, mv, crash, hist>>

----------------------------------------------------------------------------
(* CycaxClient.upload_file, set_task_state and upload_artifacts. *)

NoUpload == [name |-> "none", job_id |-> <<>>, extensions_only |-> PyNone, part_path |-> <<>>,
             todo |-> {}, busy |-> FALSE, cur |-> <<>>, retry |-> 0, count |-> 0,
             aborted |-> FALSE, ret |-> "none", returned |-> {}, fails |-> 0, worst |-> 0]

\* part_path.iterdir(): the names of the files in the directory
IterDir(files, part_path) == {p[2] : p \in {q \in DOMAIN files : q[1] = part_path}}

\* entering upload_artifacts: count = 0 and the directory listing still to walk.
\* returned, fails and worst only record what happened: the files whose upload_file
\* call returned, how many calls in a row raised for the file at hand, and the
\* longest such run for any file of this call
UploadFrame(name, job_id, part_no, base_path, extensions_only, job_path, files, ret) ==
    [name |-> name, job_id |-> job_id, extensions_only |-> extensions_only,
     part_path |-> PartPath(base_path, job_id, part_no, job_path),
     todo |-> IterDir(files, PartPath(base_path, job_id, part_no, job_path)),
     busy |-> FALSE, cur |-> <<>>, retry |-> 0, count |-> 0, aborted |-> FALSE, ret |-> ret,
     returned |-> {}, fails |-> 0, worst |-> 0]

\* a threshold of one file instead of more than one
ReportsCompleted_AtLeastOne(count) == count > 0

\* `if count > 1`
ReportsCompleted(count) == count > 1

\* the for loop goes on to the next file
AbortsLoop_Never(retry) == FALSE

\* `if retry == 0: break`, after the while loop
AbortsLoop(retry) == retry = 0

\* the next `filepath` of `for filepath in part_path.iterdir()`, in the order the
\* operating system lists the directory, and its check_extension test
UploadNextFile ==
    /\ pc = "upload"
    /\ ~up.busy /\ ~up.aborted
    /\ \E f \in up.todo :
         up' = IF check_extension(up.extensions_only, PathJoin(up.part_path, f))
               THEN [up EXCEPT !.todo = up.todo \ {f}, !.busy = TRUE, !.cur = f, !.retry = RETRIES,
                               !.fails = 0]
               ELSE [up EXCEPT !.todo = up.todo \ {f}]
    /\ calls' = <<>>
    /\ log' = Logged(log, calls')
    /\ UNCHANGED <<pc, variant, taskState, artifacts, jobs, jobIdx, asm, fs, scene, dl, mv, crash, hist>>

\* one pass of `while retry > 0`: upload_file returns (the server acknowledged the
\* POST, or answered it with an error status that nothing inspects) or raises
UploadAttempt ==
    /\ pc = "upload"
    /\ up.busy /\ up.retry > 0
    /\ \E outcome \in {"ack", "status", "raise"} :
         \/ /\ outcome = "ack"
            /\ up' = [up EXCEPT !.count = up.count + 1, !.busy = FALSE,
                                !.returned = up.returned \cup {up.cur}]
            /\ calls' = <<Call("upload_file", <<up.job_id, up.cur>>)>>
            /\ UNCHANGED hist
         \/ /\ outcome = "status"
            /\ up' = [up EXCEPT !.count = up.count + 1, !.busy = FALSE,
                                !.returned = up.returned \cup {up.cur}]
            /\ calls' = <<CallRes("upload_file", <<up.job_id, up.cur>>, "status")>>
            /\ hist' = [hist EXCEPT !.clean = FALSE]
         \/ /\ outcome = "raise"
            /\ up' = [up EXCEPT !.retry = up.retry - 1,
                                !.busy = up.retry - 1 > 0,
                                !.aborted = AbortsLoop(up.retry - 1),
                                !.fails = up.fails + 1,
                                !.worst = IF up.fails + 1 > up.worst THEN up.fails + 1
                                          ELSE up.worst]
            /\ calls' = <<CallRes("upload_file", <<up.job_id, up.cur>>, "raise"), Call("sleep", 3)>>
            /\ hist' = [hist EXCEPT !.clean = FALSE]
    /\ log' = Logged(log, calls')
    /\ UNCHANGED <<pc, variant, taskState, artifacts, jobs, jobIdx, asm, fs, scene, dl, mv, crash>>

\* after the for loop: `if count > 1: self.set_task_state(job_id, name, "COMPLETED")`.
\* The server accepts the state, answers with an error status (the response is only
\* logged) or the POST raises.
UploadFinish ==
    /\ pc = "upload"
    /\ ~up.busy
    /\ up.aborted \/ up.todo = {}
    /\ IF ReportsCompleted(up.count)
       THEN \E outcome \in {"ok", "status", "raise"} :
              /\ calls' = <<CallRes("set_task_state", <<up.job_id, up.name, "COMPLETED">>, outcome)>>
              /\ \/ /\ outcome = "ok"
                    /\ taskState' = [taskState EXCEPT ![up.job_id] = "COMPLETED"]
                    /\ pc' = up.ret
                    /\ UNCHANGED <<crash, hist>>
                 \/ /\ outcome = "status"
                    /\ pc' = up.ret
                    /\ hist' = [hist EXCEPT !.clean = FALSE]
                    /\ UNCHANGED <<taskState, crash>>
                 \/ /\ outcome = "raise"
                    /\ Crash("TransportError")
                    /\ UNCHANGED <<taskState, hist>>
       ELSE /\ calls' = <<>>
            /\ pc' = up.ret
            /\ UNCHANGED <<taskState, crash, hist>>
    /\ log' = Logged(log, calls')
    /\ UNCHANGED <<variant, artifacts, jobs, jobIdx, asm, fs, scene, dl, up, mv>>

----------------------------------------------------------------------------
(* AssemblyBlender: __init__, _fetch_part, _colour, add, build. *)

Underscore == <<"_">>
Cube == <<"C", "u", "b", "e">>
Digits == <<"0", "1", "2", "3", "4", "5", "6", "7", "8", "9">>

\* str(n) of an f-string, n >= 0
RECURSIVE ToStr(_)
ToStr(n) == IF n < 10 THEN <<Digits[n + 1]>> ELSE ToStr(n \div 10) \o <<Digits[(n % 10) + 1]>>

Names(objs) == {objs[i].name : i \in 1..Len(objs)}

\* the Scene Engine keeps object names unique: a taken name gets .001, .002, ...
RECURSIVE UniqueFrom(_, _, _)
UniqueFrom(objs, name, k) ==
    LET cand == name \o <<".", "0", "0">> \o ToStr(k)
    IN IF cand \notin Names(objs) THEN cand ELSE UniqueFrom(objs, name, k + 1)

UniqueName(objs, name) == IF name \notin Names(objs) THEN name ELSE UniqueFrom(objs, name, 1)

\* the counter update of _fetch_part: self.parts after one imported object
CountPart(parts, part_no) ==
    IF part_no \in DOMAIN parts
    THEN [parts EXCEPT ![part_no] = parts[part_no] + 1]
    ELSE (part_no :> 1) @@ parts

\* f"{part_no}_{self.parts[part_no]}"
InstanceName(part_no, n) == part_no \o Underscore \o ToStr(n)

\* stl_file of _fetch_part
StlFile(base_path, job_id, part_no) == <<PathJoin(base_path, job_id), part_no \o DotStl>>

\* save_file of build
SaveFile(base_path, job_id, name) == <<PathJoin(base_path, job_id), name \o DotBlend>>

\* the extensions_only that build hands to upload_artifacts: none in main.py,
\* the str "blender" in assembler.py
BuildUploadFilter(v) == IF v = "main" THEN PyNone ELSE PyStr(BlenderStr)

\* `for part in self._spec.get("parts", [])`: the next part, or the end of the loop
BuildNext ==
    /\ pc = "build"
    /\ IF asm.partIdx <= Len(asm.spec.parts)
       THEN LET part_operation == asm.spec.parts[asm.partIdx]
            IN /\ dl' = DownloadFrame(part_operation.jobid, part_operation.part_no, BasePath,
                                      PyList(<<DotStl>>), FALSE, TRUE, "fetch")
               /\ pc' = "dl_list"
       ELSE /\ pc' = "save"
            /\ UNCHANGED dl
    /\ calls' = <<>>
    /\ log' = Logged(log, calls')
    /\ UNCHANGED <<variant, taskState, artifacts, jobs, jobIdx, asm, fs, scene, up, mv, crash, hist>>

\* the existence test left out
MeshMissing_Never(files, stl_file) == FALSE

\* `if not stl_file.exists()`
MeshMissing(files, stl_file) == stl_file \notin DOMAIN files

\* _fetch_part after download_artifacts: the existence test, the import and the
\* naming of the imported object; then add enters _move.  A file that holds an
\* error body is no mesh: the import raises.
FetchImport ==
    /\ pc = "fetch"
    /\ LET part_operation == asm.spec.parts[asm.partIdx]
           part_no == part_operation.part_no
           stl_file == StlFile(BasePath, part_operation.jobid, part_no)
           parts1 == CountPart(asm.parts, part_no)
           obj == [name |-> UniqueName(scene, InstanceName(part_no, parts1[part_no])),
                   material |-> "none"]
       IN IF MeshMissing(fs, stl_file)
          THEN /\ Crash("FileExistsError")
               /\ calls' = <<>>
               /\ UNCHANGED <<asm, scene, mv>>
          ELSE IF stl_file \notin DOMAIN fs \/ fs[stl_file].kind # "mesh"
          THEN /\ Crash("ImportError")
               /\ calls' = <<CallRes("stl_import", stl_file, "raise")>>
               /\ UNCHANGED <<asm, scene, mv>>
          ELSE /\ scene' = Append(scene, obj)
               /\ asm' = [asm EXCEPT !.parts = parts1]
               /\ mv' = MoveFrame(part_operation.rotmax, part_operation.position,
                                  part_operation.rotate, "colour")
               /\ calls' = <<Call("stl_import", stl_file), Call("rename", obj.name)>>
               /\ pc' = "move"
               /\ UNCHANGED crash
    /\ dl' = IF pc' = "move" THEN NoDownload ELSE dl
    /\ log' = Logged(log, calls')
    /\ UNCHANGED <<variant, taskState, artifacts, jobs, jobIdx, fs, up, hist>>

\* the first object called `name`: bpy.data.objects.get(name)
ObjectIndex(objs, name) == CHOOSE i \in 1..Len(objs) : objs[i].name = name

\* _colour, the last call of add
Colour ==
    /\ pc = "colour"
    /\ LET part_operation == asm.spec.parts[asm.partIdx]
           working_part == InstanceName(part_operation.part_no, asm.parts[part_operation.part_no])
       IN IF working_part \in Names(scene)
          THEN /\ scene' = [scene EXCEPT ![ObjectIndex(scene, working_part)].material =
                                             part_operation.colour]
               /\ calls' = <<Call("set_material", <<working_part, part_operation.colour>>)>>
               /\ asm' = [asm EXCEPT !.partIdx = asm.partIdx + 1]
               /\ mv' = NoMove
               /\ pc' = "build"
               /\ UNCHANGED crash
          ELSE /\ Crash("AttributeError")
               /\ calls' = <<>>
               /\ UNCHANGED <<scene, asm, mv>>
    /\ log' = Logged(log, calls')
    /\ UNCHANGED <<variant, taskState, artifacts, jobs, jobIdx, fs, dl, up, hist>>

\* build after the parts: mkdir, save_as_mainfile, and the call of upload_artifacts
Save ==
    /\ pc = "save"
    /\ LET save_file == SaveFile(BasePath, asm.job_id, asm.name)
       IN \E outcome \in {"ok", "raise"} :
            \/ /\ outcome = "ok"
               /\ fs' = (save_file :> Content("scene", <<Len(scene)>>)) @@ fs
               /\ up' = UploadFrame("blender", asm.job_id, asm.name, BasePath,
                                    BuildUploadFilter(variant), TRUE, fs', "next_job")
               /\ calls' = <<Call("mkdir", save_file[1]), Call("save_as_mainfile", save_file)>>
               /\ pc' = "upload"
               /\ UNCHANGED crash
            \/ /\ outcome = "raise"
               /\ calls' = <<Call("mkdir", save_file[1]), CallRes("save_as_mainfile", save_file, "raise")>>
               /\ Crash("FileSystemError")
               /\ UNCHANGED <<fs, up>>
    /\ log' = Logged(log, calls')
    /\ UNCHANGED <<variant, taskState, artifacts, jobs, jobIdx, asm, scene, dl, mv, hist>>

----------------------------------------------------------------------------
(* The Job Server's data. *)

TaskStates == {"ABSENT", "PENDING", "COMPLETED"}

\* one job of the listing; a job that is no assembly has no "blender" task, or
\* no "attributes" at all
JobDicts(job_id, state) ==
    IF state # "ABSENT"
    THEN {[id |-> job_id, attributes |-> [state |-> [tasks |-> [blender |-> state]]]]}
    ELSE {[id |-> job_id, attributes |-> [state |-> [tasks |-> [freecad |-> "COMPLETED"]]]],
          [id |-> job_id]}

\* the answers GET /jobs may give: any sub-list of the jobs, each as it is now
Snapshots ==
    {<<>>} \cup {<<d>> : d \in JobDicts(J1, taskState[J1]) \cup JobDicts(J2, taskState[J2])}
           \cup {<<d1, d2>> : d1 \in JobDicts(J1, taskState[J1]), d2 \in JobDicts(J2, taskState[J2])}

PartOp(part_no, jobid, position, rotate, colour, rotmax) ==
    [part_no |-> part_no, jobid |-> jobid, position |-> position, rotate |-> rotate,
     colour |-> colour, rotmax |-> rotmax]

AssemblyName(job_id) == IF job_id = J1 THEN A1 ELSE A2

\* the specs GET /jobs/{id}/spec may answer with: no part; the one part of the
\* spec's scenario, built by another job; one part twice; two parts, the first
\* built by another job
JobSpecs(job_id) ==
    { [name |-> AssemblyName(job_id), parts |-> <<>>],
      [name |-> AssemblyName(job_id),
       parts |-> <<PartOp(P1, J3, <<10, 0, 0>>, <<[axis |-> "z"]>>, "red", <<5, 5, 5>>)>>],
      [name |-> AssemblyName(job_id),
       parts |-> <<PartOp(P1, job_id, <<0, 0, 0>>, <<[axis |-> "x"], [axis |-> "w"]>>, "red", <<1, 2, 3>>),
                   PartOp(P1, job_id, <<0, 1, 0>>, <<>>, "blue", <<1, 2, 3>>)>>],
      [name |-> AssemblyName(job_id),
       parts |-> <<PartOp(P1, J3, <<0, 0, 0>>, <<>>, "red", <<1, 2, 3>>),
                   PartOp(P2, job_id, <<0, 0, 2>>, <<[axis |-> "y"]>>, "blue", <<2, 2, 1>>)>>] }

----------------------------------------------------------------------------
(* main.py: dict_get and the polling loop. *)

RECURSIVE dict_get(_, _)
dict_get(data, args) ==
    IF Len(args) = 1 THEN Get(data, args[1], "None")
    ELSE dict_get(Get(data, args[1], EmptyDict), Tail(args))

\* `if blender_state not in (None, "COMPLETED")`
IsAssembly(job) ==
    dict_get(job, <<"attributes", "state", "tasks", "blender">>) \notin {"None", "COMPLETED"}

\* the loop over the parts begun at the second part
NewAssembly_SkipFirst(spec, job_id) ==
    [active |-> TRUE, name |-> spec.name, job_id |-> job_id, spec |-> spec,
     parts |-> EmptyDict, partIdx |-> 2]

\* AssemblyBlender.__init__: a new instance; the default Cube leaves the scene
NewAssembly(spec, job_id) ==
    [active |-> TRUE, name |-> spec.name, job_id |-> job_id, spec |-> spec,
     parts |-> EmptyDict, partIdx |-> 1]

WithoutCube(objs) == SelectSeq(objs, LAMBDA o : o.name # Cube)

\* server.list_jobs(state_not_in="completed") and `if not jobs`
Poll ==
    /\ pc = "poll"
    /\ \E outcome \in {"ok", "raise"} :
         \/ /\ outcome = "ok"
            /\ \E snapshot \in Snapshots :
                 IF snapshot = <<>>
                 THEN /\ calls' = <<Call("list_jobs", "COMPLETED"), Call("sleep", 10)>>
                      /\ hist' = [hist EXCEPT !.started = {}]
                      /\ UNCHANGED <<pc, jobs, jobIdx>>
                 ELSE /\ calls' = <<Call("list_jobs", "COMPLETED")>>
                      /\ jobs' = snapshot
                      /\ jobIdx' = 1
                      /\ hist' = [hist EXCEPT !.started = {}]
                      /\ pc' = "job"
            /\ UNCHANGED crash
         \/ /\ outcome = "raise"
            /\ calls' = <<CallRes("list_jobs", "COMPLETED", "raise")>>
            /\ Crash("TransportError")
            /\ UNCHANGED <<jobs, jobIdx, hist>>
    /\ log' = Logged(log, calls')
    /\ UNCHANGED <<variant, taskState, artifacts, asm, fs, scene, dl, up, mv>>

\* one iteration of `for job in jobs` up to the call of build, or the end of the
\* loop, which is the end of the cycle
JobStep ==
    /\ pc = "job"
    /\ IF jobIdx > Len(jobs)
       THEN /\ pc' = "poll"
            /\ calls' = <<>>
            /\ UNCHANGED <<jobIdx, asm, scene, crash, hist>>
       ELSE LET job == jobs[jobIdx]
            IN IF IsAssembly(job)
               THEN /\ hist.builds < MaxBuilds
                    /\ \E outcome \in {"ok", "raise"} :
                         \/ /\ outcome = "ok"
                            /\ \E spec \in JobSpecs(job.id) :
                                 asm' = NewAssembly(spec, job.id)
                            /\ scene' = WithoutCube(scene)
                            /\ hist' = [hist EXCEPT !.builds = hist.builds + 1,
                                                    !.started = hist.started \cup {jobIdx},
                                                    !.clean = TRUE]
                            /\ pc' = "build"
                            /\ UNCHANGED crash
                         \/ /\ outcome = "raise"
                            /\ Crash("TransportError")
                            /\ hist' = [hist EXCEPT !.started = hist.started \cup {jobIdx}]
                            /\ UNCHANGED <<asm, scene>>
                    /\ calls' = <<CallRes("get_job_spec", job.id, IF pc' = "crashed" THEN "raise" ELSE "ok")>>
                    /\ UNCHANGED jobIdx
               ELSE /\ jobIdx' = jobIdx + 1
                    /\ calls' = <<>>
                    /\ UNCHANGED <<pc, asm, scene, crash, hist>>
    /\ log' = Logged(log, calls')
    /\ UNCHANGED <<variant, taskState, artifacts, jobs, fs, dl, up, mv>>

\* build returned: the for loop moves on
NextJob ==
    /\ pc = "next_job"
    /\ jobIdx' = jobIdx + 1
    /\ asm' = NoAsm
    /\ up' = NoUpload
    /\ pc' = "job"
    /\ calls' = <<>>
    /\ log' = <<>>
    /\ UNCHANGED <<variant, taskState, artifacts, jobs, fs, scene, dl, mv, crash, hist>>

----------------------------------------------------------------------------
(* The worker process. *)

NoHist == [builds |-> 0, started |-> {}, clean |-> FALSE]
NoFiles == [p \in {} |-> Content("none", <<>>)]

\* what the Job Server lists for the jobs that build parts
WorkerArtifacts ==
    { (J1 :> <<ArtStl>>) @@ (J2 :> <<ArtStl>>) @@ (J3 :> l) : l \in {<<ArtJson, ArtStl>>, <<ArtJson>>} }

Init ==
    /\ pc = "poll"
    /\ variant \in {"main", "package"}
    /\ taskState \in {(J1 :> "PENDING") @@ (J2 :> st) : st \in TaskStates}
    /\ artifacts \in WorkerArtifacts
    /\ jobs = <<>>
    /\ jobIdx = 0
    /\ asm = NoAsm
    /\ fs = NoFiles
    /\ scene = <<[name |-> Cube, material |-> "none"]>>
    /\ dl = NoDownload
    /\ up = NoUpload
    /\ mv = NoMove
    /\ calls = <<>>
    /\ crash = "none"
    /\ hist = NoHist
    /\ log = <<>>

Next ==
    \/ Poll
    \/ JobStep
    \/ NextJob
    \/ BuildNext
    \/ DownloadList
    \/ DownloadArtifact
    \/ DownloadReturn
    \/ FetchImport
    \/ MoveItem
    \/ MoveTranslate
    \/ Colour
    \/ Save
    \/ UploadNextFile
    \/ UploadAttempt
    \/ UploadFinish

Spec == Init /\ [][Next]_vars

----------------------------------------------------------------------------
(* _move on its own: every rotmax, position and rotate list within the bounds. *)

ExtentValues == (0..MaxExtent) \cup {5}
Axes == {"x", "y", "z", "w"}
Positions == {<<0, 0, 0>>, <<10, 0, 0>>, <<1, 2, 3>>}

SeqsUpTo(S, n) == UNION {[1..k -> S] : k \in 0..n}

RotateLists == {[i \in 1..Len(r) |-> [axis |-> r[i]]] : r \in SeqsUpTo(Axes, MaxRotate)}

\* the quarter turn that undoes one rotate entry: the entry three more times
\* (ROT_STEPS sub-steps each), so that the sub-steps about the axis add up to full turns
RECURSIVE Complement(_)
Complement(r) ==
    IF r = <<>> THEN <<>>
    ELSE LET last == r[Len(r)]
         IN <<last, last, last>> \o Complement(SubSeq(r, 1, Len(r) - 1))

\* r followed by its reverse, each entry of the reverse with its complement
RoundTrip(r) == r \o Complement(r)

RecognizedLists ==
    {[i \in 1..Len(r) |-> [axis |-> r[i]]] : r \in SeqsUpTo({"x", "y", "z"}, MaxRotate)}

Idle ==
    /\ variant = "main"
    /\ taskState = (J1 :> "PENDING") @@ (J2 :> "ABSENT")
    /\ jobs = <<>>
    /\ jobIdx = 0
    /\ asm = NoAsm
    /\ scene = <<>>
    /\ calls = <<>>
    /\ crash = "none"
    /\ hist = [NoHist EXCEPT !.clean = TRUE]
    /\ log = <<>>

InitMove ==
    /\ Idle
    /\ pc = "move"
    /\ artifacts \in {(J1 :> <<ArtStl>>) @@ (J2 :> <<ArtStl>>) @@ (J3 :> <<ArtStl>>)}
    /\ fs = NoFiles
    /\ dl = NoDownload
    /\ up = NoUpload
    /\ \E rotmax \in ExtentValues \X ExtentValues \X ExtentValues, position \in Positions,
          rotate \in RotateLists \cup {RoundTrip(r) : r \in RecognizedLists} :
         mv = MoveFrame(rotmax, position, rotate, "done")

NextMove ==
    \/ MoveItem
    \/ MoveTranslate

SpecMove == InitMove /\ [][NextMove]_vars

----------------------------------------------------------------------------
(* upload_artifacts on its own: every directory content, filter and outcome. *)

FileNames == {P1 \o DotStl, P2 \o DotStl, A1 \o DotBlend, A1 \o DotJson}
Filters == {PyNone, PyList(<<DotBlend>>), PyList(<<DotJson, DotBlend>>), PyStr(BlenderStr)}

\* a directory that holds exactly the files `names`
DirWith(part_path, names) ==
    [p \in {<<part_path, n>> : n \in names} |-> Content("file", p[2])]

InitUpload ==
    /\ Idle
    /\ pc = "upload"
    /\ artifacts \in {(J1 :> <<ArtStl>>) @@ (J2 :> <<ArtStl>>) @@ (J3 :> <<ArtStl>>)}
    /\ dl = NoDownload
    /\ mv = NoMove
    /\ \E names \in {n \in SUBSET FileNames : Cardinality(n) <= MaxFiles},
          extensions_only \in Filters, job_path \in BOOLEAN :
         /\ fs = DirWith(PartPath(BasePath, J1, A1, job_path), names)
         /\ up = UploadFrame("blender", J1, A1, BasePath, extensions_only, job_path, fs, "done")

NextUpload ==
    \/ UploadNextFile
    \/ UploadAttempt
    \/ UploadFinish

SpecUpload == InitUpload /\ [][NextUpload]_vars

\* upload_artifacts runs in one thread and each of its steps returns (the POST has
\* a timeout, the sleep ends), so a step that can be taken is taken
SpecUploadFair == SpecUpload /\ WF_vars(NextUpload)

----------------------------------------------------------------------------
(* download_artifacts on its own: every listing, flag and set of existing files. *)

Listings == SeqsUpTo(ArtifactObjs, MaxArtifacts)
DownloadFilters == {PyNone, PyList(<<>>), PyList(<<DotStl>>), PyList(<<DotBlend, DotStl>>)}

InitDownload ==
    /\ Idle
    /\ pc = "dl_list"
    /\ up = NoUpload
    /\ mv = NoMove
    /\ \E listing \in Listings, extensions_only \in DownloadFilters,
          overwrite \in BOOLEAN, job_path \in BOOLEAN,
          names \in SUBSET {P1 \o DotStl, P1 \o DotJson} :
         /\ artifacts = (J1 :> <<ArtStl>>) @@ (J2 :> <<ArtStl>>) @@ (J3 :> listing)
         /\ dl = DownloadFrame(J3, P1, BasePath, extensions_only, overwrite, job_path, "done")
         /\ fs = DirWith(PartPath(BasePath, J3, P1, job_path), names)

NextDownload ==
    \/ DownloadList
    \/ DownloadArtifact
    \/ DownloadReturn

SpecDownload == InitDownload /\ [][NextDownload]_vars

----------------------------------------------------------------------------
(* Properties of upload_artifacts. *)

\* the calls of operation op among cs
CallsOf(cs, op) == {i \in 1..Len(cs) : cs[i].op = op}

\* the step ends the running upload_artifacts call (it returns, or raises)
UploadEnds == pc = "upload" /\ pc' # "upload"

\* C1: upload_artifacts calls set_task_state(job_id, name, "COMPLETED") if and only
\* if more than one file was uploaded during the call (its upload_file call
\* returned): the call is made at the end of the call and nowhere else, with these
\* arguments, and for 0 or 1 uploaded files it is not made.
C1_CompletedIffMoreThanOne ==
    [][ /\ UploadEnds =>
             (CallsOf(calls', "set_task_state") # {} <=> Cardinality(up.returned) > 1)
        /\ \A i \in CallsOf(calls', "set_task_state") :
             /\ UploadEnds
             /\ calls'[i].arg = <<up.job_id, up.name, "COMPLETED">>
             /\ Cardinality(up.returned) > 1 ]_vars

\* C1 witness: a call ended having uploaded two files and reported COMPLETED
C1_Witness ==
    /\ pc = "done"
    /\ CallsOf(calls, "set_task_state") # {}
    /\ taskState[J1] = "COMPLETED"

\* C2: upload_artifacts never reports the task COMPLETED once a file has failed
\* all 3 attempts, however many files were uploaded before it.
C2_NoCompletedAfterAbort ==
    [][ up.worst >= 3 => CallsOf(calls', "set_task_state") = {} ]_vars

\* C3: once a file has failed on its 3rd attempt in a row, no upload_file call
\* follows in that upload_artifacts call, for that file or any other.
C3_NoUploadAfterThirdFailure ==
    [][ (pc = "upload" /\ up.worst >= 3) => CallsOf(calls', "upload_file") = {} ]_vars

\* C3 witness: a file failed three times while other files were still to come,
\* and the call ended without touching them
C3_Witness ==
    /\ pc = "upload"
    /\ up.fails = 3
    /\ up.aborted
    /\ up.todo # {}
    /\ \E f \in up.todo : check_extension(up.extensions_only, PathJoin(up.part_path, f))

\* C18: in upload_artifacts a file that passes the filter and is reached is
\* attempted at once; an attempt is at most the 3rd for its file and never follows
\* a successful attempt for that file; the count is the number of files uploaded,
\* so it grows by at most one per file; and the call ends whatever attempts fail.
C18_AttemptsBoundedAndCallEnds ==
    /\ [][ /\ (pc = "upload" /\ up.busy) =>
                /\ Len(calls') >= 1
                /\ calls'[1].op = "upload_file"
                /\ calls'[1].arg = <<up.job_id, up.cur>>
           /\ (pc = "upload" /\ CallsOf(calls', "upload_file") # {}) =>
                /\ up.fails < 3
                /\ up.cur \notin up.returned
                /\ Cardinality(CallsOf(calls', "upload_file")) = 1
           /\ up'.count = Cardinality(up'.returned)
           /\ up'.count <= up.count + 1 ]_vars
    /\ <>(pc # "upload")

\* C18 witness: the call ended after a file was uploaded on its 3rd attempt, a
\* second file on its 1st
C18_Witness ==
    /\ pc = "done"
    /\ up.worst = 2
    /\ up.count = 2
    /\ Cardinality(up.returned) = 2
    /\ up.todo = {}

\* the step makes an upload_file call that the server answers with an error status
RefusedUpload ==
    /\ pc = "upload"
    /\ \E i \in CallsOf(calls', "upload_file") : calls'[i].res = "status"

\* C20: an upload the Job Server answers with an error status is a failed attempt:
\* the file is not counted, and the attempt is followed by the retry delay like
\* any other failure.
C20_ErrorStatusIsAFailure ==
    [][ RefusedUpload =>
          /\ up'.count = up.count
          /\ \E i \in CallsOf(calls', "sleep") : calls'[i].arg = 3 ]_vars

----------------------------------------------------------------------------
(* Properties of a build and of the polling loop. *)

\* C4: a build in which every collaborator call succeeded ends with the "blender"
\* task of its job COMPLETED on the Job Server.
C4_CleanBuildCompletes ==
    (pc = "next_job" /\ hist.clean) => taskState[asm.job_id] = "COMPLETED"

\* the "blender" task state a listed job carries, "None" when it carries none
SnapshotState(job) ==
    IF "attributes" \in DOMAIN job /\ "blender" \in DOMAIN job.attributes.state.tasks
    THEN job.attributes.state.tasks.blender
    ELSE "None"

\* the cycle that polled `jobs` is over: the loop is back at the poll, or the
\* process has ended
CycleOver == pc = "poll" \/ pc = "crashed"

\* C6: in a poll cycle the worker starts a build for a listed job exactly when the
\* job's "blender" task state in the snapshot is neither COMPLETED nor absent:
\* never for a job without that state, and for every listed job with it.
C6_BuildsExactlyTheEligible ==
    /\ \A i \in hist.started : SnapshotState(jobs[i]) \notin {"None", "COMPLETED"}
    /\ CycleOver =>
         \A i \in 1..Len(jobs) :
           SnapshotState(jobs[i]) \notin {"None", "COMPLETED"} => i \in hist.started

\* the process ended inside a job's build: with the assembler at work, or on the
\* fetch of the job's spec
BuildFailed == pc = "crashed" /\ (asm.active \/ CallsOf(calls, "get_job_spec") # {})

\* C7: a failure during a build (a transport error, a missing spec, a missing mesh
\* after the download, a filesystem error) never ends the worker process.
C7_FailureNeverEndsTheProcess ==
    ~(BuildFailed /\ crash \in {"TransportError", "FileExistsError", "FileSystemError"})

----------------------------------------------------------------------------
(* Properties of download_artifacts. *)

\* the step handles the next artifact of the listing, and download_artifacts
\* selects it
HandlesSelected ==
    /\ pc = "dl_item"
    /\ dl.todo # <<>>
    /\ Selected(Head(dl.todo), dl.extensions_only)

HeadPath == ArtifactPath(dl.part_path, ArtifactId(Head(dl.todo)), dl.part_no)

\* C5: with overwrite=false download_artifacts issues no artifact GET for a selected
\* artifact whose local file exists, and leaves the file as it is; with
\* overwrite=true it issues the GET for every selected artifact it handles, whether
\* or not the file exists, and writes the answer's body to the file.
C5_OverwritePolicy ==
    [][ HandlesSelected =>
          /\ (~dl.overwrite /\ HeadPath \in DOMAIN fs) =>
                 (CallsOf(calls', "GET_artifact") = {} /\ fs' = fs)
          /\ dl.overwrite =>
                 /\ Len(calls') >= 1
                 /\ calls'[1].op = "GET_artifact"
                 /\ calls'[1].arg = <<dl.job_id, ArtifactId(Head(dl.todo))>>
                 /\ calls'[1].res # "raise" =>
                       /\ HeadPath \in DOMAIN fs'
                       /\ fs'[HeadPath].tag = ArtifactId(Head(dl.todo))
                       /\ fs'[HeadPath].kind # "file" ]_vars

\* C5 witness: overwrite=false, the listing ended with the mesh artifact, its file
\* was there before the call and is untouched, and no GET was issued for it
C5_Witness ==
    /\ pc = "dl_item"
    /\ dl.todo = <<>>
    /\ ~dl.overwrite
    /\ artifacts[J3] # <<>>
    /\ artifacts[J3][Len(artifacts[J3])] = ArtStl
    /\ calls = <<>>
    /\ <<dl.part_path, P1 \o DotStl>> \in DOMAIN fs
    /\ fs[<<dl.part_path, P1 \o DotStl>>].kind = "file"

\* the listed artifact at hand has a non-empty id, type `artifact`, and an id
\* that passes the filter: no filter (None, or a list without entries), or the id
\* ends with one of its entries
Eligible(obj, filter) ==
    /\ "id" \in DOMAIN obj
    /\ obj.id # <<>>
    /\ "type" \in DOMAIN obj
    /\ obj.type = "artifact"
    /\ \/ filter.kind = "none"
       \/ filter.val = <<>>
       \/ \E i \in 1..Len(filter.val) : EndsWith(obj.id, filter.val[i])

\* the id with the placeholder replaced by partNo, under destDir/jobId when the
\* directory is job scoped and under destDir/partNo otherwise
LocalPath(obj) ==
    <<IF dl.job_path THEN BasePath \o Slash \o dl.job_id ELSE BasePath \o Slash \o dl.part_no,
      Replace(obj.id, PART_NO_TEMPLATE, dl.part_no)>>

\* C14: download_artifacts fetches or skips exactly the eligible listed artifacts
\* and does nothing for any other; a fetch asks for the artifact by job and id and
\* writes its local path and no other file, a skip finds that path present.
C14_SelectsAndPlacesArtifacts ==
    [][ (pc = "dl_item" /\ dl.todo # <<>>) =>
          LET obj == Head(dl.todo)
          IN IF Eligible(obj, dl.extensions_only)
             THEN \/ /\ calls' = <<>>
                     /\ fs' = fs
                     /\ LocalPath(obj) \in DOMAIN fs
                  \/ /\ Len(calls') >= 1
                     /\ calls'[1].op = "GET_artifact"
                     /\ calls'[1].arg = <<dl.job_id, obj.id>>
                     /\ \A q \in DOMAIN fs' \ {LocalPath(obj)} : q \in DOMAIN fs /\ fs'[q] = fs[q]
                     /\ \A q \in DOMAIN fs : q \in DOMAIN fs'
                     /\ calls'[1].res # "raise" =>
                           /\ LocalPath(obj) \in DOMAIN fs'
                           /\ fs'[LocalPath(obj)].tag = obj.id
             ELSE calls' = <<>> /\ fs' = fs ]_vars

\* C14 witness: job-scoped directory, filter [".stl"], the listing (a mesh of
\* another type, a mesh artifact): only the latter was fetched, to <base>/J3/P1.stl
C14_Witness ==
    /\ pc = "dl_item"
    /\ dl.todo = <<>>
    /\ dl.job_path
    /\ dl.extensions_only = PyList(<<DotStl>>)
    /\ artifacts[J3] = <<ArtOther, ArtStl>>
    /\ DOMAIN fs = {<<BasePath \o Slash \o J3, P1 \o DotStl>>}
    /\ fs[<<BasePath \o Slash \o J3, P1 \o DotStl>>] = Content("mesh", PART_NO_TEMPLATE \o DotStl)
    /\ Len(calls) = 2

----------------------------------------------------------------------------
(* Properties of _move. *)

\* the spec's sub-step for each axis, on <<offset, extents>>
StepX(s) == << <<s[1][1], s[1][3], s[2][2] - s[1][2]>>, <<s[2][1], s[2][3], s[2][2]>> >>
StepY(s) == << <<s[2][3] - s[1][3], s[1][2], s[1][1]>>, <<s[2][3], s[2][2], s[2][1]>> >>
StepZ(s) == << <<s[1][2], s[2][1] - s[1][1], s[1][3]>>, <<s[2][2], s[2][1], s[2][3]>> >>

\* C8: for every rotate entry about x, y or z, the offset and the extents after the
\* entry are those before it with the spec's sub-step for that axis applied 3 times.
C8_EntryIsThreeSubSteps ==
    [][ (pc = "move" /\ mv.idx <= Len(mv.rotate)) =>
          LET axis == mv.rotate[mv.idx].axis
              before == <<mv.rotation, mv.rotmax>>
              after == <<mv'.rotation, mv'.rotmax>>
          IN /\ axis = "x" => after = StepX(StepX(StepX(before)))
             /\ axis = "y" => after = StepY(StepY(StepY(before)))
             /\ axis = "z" => after = StepZ(StepZ(StepZ(before))) ]_vars

\* C8 witness: an x entry processed on extents (1, 2, 5)
C8_Witness ==
    /\ pc = "move"
    /\ mv.idx = 2
    /\ mv.rotate[1].axis = "x"
    /\ mv.rotmax0 = <<1, 2, 5>>
    /\ mv.rotation = <<0, 5, 0>>
    /\ mv.rotmax = <<1, 5, 2>>

\* C9: the translation handed to the Scene Engine is offset + position, component
\* by component; for the single rotation z on rotmax (ex, ey, ez) exactly one
\* rotate about Z is issued, the offset is (ey, 0, 0), the extents are
\* (ey, ex, ez) and the translation is position + (ey, 0, 0).
C9_TranslationIsOffsetPlusPosition ==
    [][ /\ (pc = "move" /\ pc' # "move") =>
             /\ Len(calls') = 1
             /\ calls'[1].op = "translate"
             /\ \A k \in 1..3 : calls'[1].arg[k] = mv.rotation[k] + mv.position[k]
        /\ (pc = "move" /\ mv.rotate = <<[axis |-> "z"]>>) =>
             IF mv.idx = 1
             THEN calls' = <<Call("rotate", "Z")>>
             ELSE /\ mv.rotation = <<mv.rotmax0[2], 0, 0>>
                  /\ mv.rotmax = <<mv.rotmax0[2], mv.rotmax0[1], mv.rotmax0[3]>>
                  /\ calls' = <<Call("translate", <<mv.position[1] + mv.rotmax0[2],
                                                  mv.position[2], mv.position[3]>>)>> ]_vars

\* C9 witness: the spec's instance, rotmax (5,5,5), position (10,0,0), one z
C9_Witness ==
    /\ pc = "done"
    /\ mv.rotmax0 = <<5, 5, 5>>
    /\ mv.position = <<10, 0, 0>>
    /\ mv.rotate = <<[axis |-> "z"]>>
    /\ mv.rotation = <<5, 0, 0>>
    /\ mv.rotmax = <<5, 5, 5>>
    /\ calls = <<Call("translate", <<15, 0, 0>>)>>

\* the one sub-step left to a full turn about each axis of r, last axis first
RECURSIVE UndoSingle(_, _, _)
UndoSingle(r, rotation, rotmax) ==
    IF r = <<>> THEN <<rotation, rotmax>>
    ELSE LET axis == r[Len(r)].axis
             rest == SubSeq(r, 1, Len(r) - 1)
             s == IF axis = "x" THEN _swap_yz_(rotation, 4 - ROT_STEPS, rotmax)
                  ELSE IF axis = "y" THEN _swap_xz_(rotation, 4 - ROT_STEPS, rotmax)
                  ELSE _swap_xy_(rotation, 4 - ROT_STEPS, rotmax)
         IN UndoSingle(rest, s[1], s[2])

MoveOver == pc = "done" \/ (pc = "move" /\ mv.idx > Len(mv.rotate))

\* C10: a rotate list r followed by its reverse, each entry of the reverse with
\* the complement of its three sub-steps (the quarter turn that completes the
\* full turn), brings the offset back to (0,0,0) and the extents back to rotmax.
C10_RoundTrip ==
    /\ (MoveOver /\ \E r \in RecognizedLists : r # <<>> /\ mv.rotate = RoundTrip(r)) =>
          mv.rotation = <<0, 0, 0>> /\ mv.rotmax = mv.rotmax0
    /\ (MoveOver /\ mv.rotate \in RecognizedLists) =>
          UndoSingle(mv.rotate, mv.rotation, mv.rotmax) = << <<0, 0, 0>>, mv.rotmax0 >>

\* C10 witness: x then y on extents (1, 2, 5), then y three times and x three times
C10_Witness ==
    /\ pc = "done"
    /\ mv.rotate = RoundTrip(<<[axis |-> "x"], [axis |-> "y"]>>)
    /\ mv.rotmax0 = <<1, 2, 5>>
    /\ mv.rotation = <<0, 0, 0>>
    /\ mv.rotmax = <<1, 2, 5>>

\* the entries of a rotate list about x, y or z, in their order
Recognized(r) == SelectSeq(r, LAMBDA item : item.axis \in {"x", "y", "z"})

\* the sub-steps of the entries of r applied in turn to <<offset, extents>>
RECURSIVE Placed(_, _)
Placed(r, s) ==
    IF r = <<>> THEN s
    ELSE LET axis == r[1].axis
         IN Placed(Tail(r), IF axis = "x" THEN StepX(StepX(StepX(s)))
                            ELSE IF axis = "y" THEN StepY(StepY(StepY(s)))
                            ELSE StepZ(StepZ(StepZ(s))))

\* C11: an entry whose axis is none of x, y, z changes neither the offset nor the
\* extents and issues no rotation instruction; the offset and extents after the
\* list are those of its x, y, z entries alone; and for a list without such an
\* entry the translation is the position and the extents are rotmax.
C11_OnlyRecognizedEntriesCount ==
    [][ /\ (pc = "move" /\ mv.idx <= Len(mv.rotate)
             /\ mv.rotate[mv.idx].axis \notin {"x", "y", "z"}) =>
              /\ mv'.rotation = mv.rotation
              /\ mv'.rotmax = mv.rotmax
              /\ calls' = <<>>
        /\ (pc = "move" /\ pc' # "move") =>
              /\ <<mv.rotation, mv.rotmax>> =
                     Placed(Recognized(mv.rotate), << <<0, 0, 0>>, mv.rotmax0 >>)
              /\ Recognized(mv.rotate) = <<>> =>
                     /\ calls' = <<Call("translate", mv.position)>>
                     /\ mv.rotmax = mv.rotmax0 ]_vars

\* C11 witness: the list (w, x) on extents (1, 2, 5) ends as the list (x) does
C11_Witness ==
    /\ pc = "done"
    /\ mv.rotate = <<[axis |-> "w"], [axis |-> "x"]>>
    /\ mv.rotmax0 = <<1, 2, 5>>
    /\ mv.position = <<1, 2, 3>>
    /\ mv.rotation = <<0, 5, 0>>
    /\ mv.rotmax = <<1, 5, 2>>

----------------------------------------------------------------------------
(* Properties of a build: naming, order, what it keeps and what it leaves. *)

\* how many operations up to the i-th one reference the part number of the i-th
OpRank(parts, i) == Cardinality({j \in 1..i : parts[j].part_no = parts[i].part_no})

\* the step imports the mesh of the operation at hand
Imports == pc = "fetch" /\ pc' = "move"

\* the step assigns the colour of the operation at hand
Colours == pc = "colour" /\ pc' = "build"

\* C12: the k-th operation of a build that references part number p names the
\* object it imports "p_k", and its colour goes to exactly that object (the one
\* imported last) and to no other.
C12_InstanceNamesAndColours ==
    [][ /\ Imports =>
              /\ Len(scene') = Len(scene) + 1
              /\ scene'[Len(scene')].name =
                    InstanceName(asm.spec.parts[asm.partIdx].part_no,
                                 OpRank(asm.spec.parts, asm.partIdx))
        /\ Colours =>
              scene' = [scene EXCEPT ![Len(scene)].material =
                                         asm.spec.parts[asm.partIdx].colour] ]_vars

\* <stagingRoot>/<part jobId>/<partNo>.stl of the operation at hand
ExpectedMesh ==
    <<PathJoin(BasePath, asm.spec.parts[asm.partIdx].jobid),
      asm.spec.parts[asm.partIdx].part_no \o DotStl>>

\* C13: when the expected mesh file of an operation does not exist after the
\* download, the build fails there: no import is attempted and nothing is added
\* to the scene, and after the failure nothing happens any more (no later
\* operation, no save, no upload, no task state).
C13_MissingMeshFailsTheBuild ==
    [][ /\ (pc = "fetch" /\ ExpectedMesh \notin DOMAIN fs) =>
              /\ pc' = "crashed"
              /\ crash' = "FileExistsError"
              /\ calls' = <<>>
              /\ scene' = scene
              /\ fs' = fs
              /\ taskState' = taskState
        /\ crash = "FileExistsError" => UNCHANGED vars ]_vars

\* C13 witness: the build of a two-part spec failed at its first operation, whose
\* mesh the other job never listed; nothing was imported or saved
C13_Witness ==
    /\ pc = "crashed"
    /\ crash = "FileExistsError"
    /\ Len(asm.spec.parts) = 2
    /\ asm.partIdx = 1
    /\ scene = <<>>
    /\ SaveFile(BasePath, asm.job_id, asm.name) \notin DOMAIN fs
    /\ taskState[asm.job_id] = "PENDING"

\* the step issues list_jobs
Polls == pc = "poll" /\ CallsOf(calls', "list_jobs") # {}

\* no poll was issued yet
FirstPoll == jobs = <<>> /\ calls = <<>>

\* C15: the polling loop never issues two list_jobs calls back to back: between a
\* poll and the next one there is a sleep or a build, also when the poll returned
\* a list in which no job is eligible.
C15_SleepsBetweenPolls ==
    [][ Polls => (FirstPoll \/ CallsOf(calls, "sleep") # {} \/ hist.started # {}) ]_vars

\* the step saves the scene of the build at hand
Saves == pc = "save" /\ pc' = "upload"

\* C16: the scene a build saves holds exactly one object per PartOperation of
\* that build's JobSpec, whatever the process built before.
C16_SavedSceneIsThisBuildsOnly ==
    [][ Saves =>
          /\ Len(scene) = Len(asm.spec.parts)
          /\ fs'[SaveFile(BasePath, asm.job_id, asm.name)] =
                Content("scene", <<Len(asm.spec.parts)>>) ]_vars

\* C17: from its fetch to the end of the build the JobSpec the assembler holds is
\* the one the Job Server answered with, every rotmax included: placing a part
\* changes rotmax in a copy only.
C17_HeldJobSpecUnchanged ==
    asm.active => asm.spec \in JobSpecs(asm.job_id)

\* how often the kind ph is in the log l
Count(l, ph) == Cardinality({i \in 1..Len(l) : l[i] = ph})

\* the last kind logged
LastLogged == IF log = <<>> THEN "none" ELSE log[Len(log)]

\* which kind of call may come next after which
Follows ==
    {<<"download", "import">>, <<"import", "rotate">>, <<"import", "translate">>,
     <<"rotate", "translate">>, <<"translate", "colour">>, <<"colour", "download">>,
     <<"colour", "save">>, <<"save", "upload">>, <<"upload", "task">>}

\* a build begins with the download of its first part, or with the save when it
\* has no part, and goes on as Follows allows
LegalLog(l) ==
    /\ l # <<>> => l[1] \in {"download", "save"}
    /\ \A i \in 1..(Len(l) - 1) : <<l[i], l[i + 1]>> \in Follows

AxisName(axis) == IF axis = "x" THEN "X" ELSE IF axis = "y" THEN "Y" ELSE "Z"

\* C19: the calls of a build come in this order: per PartOperation, in spec order,
\* the download, the import, one rotation instruction per recognized rotate entry
\* in the listed order, one translate, the colour; the save after the last
\* operation; the uploads after the save; set_task_state after the uploads.
C19_CallOrderOfABuild ==
    /\ [](asm.active => LegalLog(log))
    /\ [][ asm.active =>
             LET k == Count(log, "colour") + 1
             IN /\ CallsOf(calls', "GET_artifacts") # {} =>
                      /\ k <= Len(asm.spec.parts)
                      /\ calls'[1].arg = asm.spec.parts[k].jobid
                /\ CallsOf(calls', "stl_import") # {} =>
                      /\ LastLogged = "download"
                      /\ calls'[1].arg = <<BasePath \o Slash \o asm.spec.parts[k].jobid,
                                          asm.spec.parts[k].part_no \o DotStl>>
                /\ (pc = "move" /\ mv.idx <= Len(mv.rotate)) =>
                      calls' = IF mv.rotate[mv.idx].axis \in {"x", "y", "z"}
                               THEN <<Call("rotate", AxisName(mv.rotate[mv.idx].axis))>>
                               ELSE <<>>
                /\ CallsOf(calls', "translate") # {} =>
                      /\ LastLogged \in {"import", "rotate"}
                      /\ mv.rotate = asm.spec.parts[k].rotate
                      /\ mv.idx = Len(mv.rotate) + 1
                      /\ Len(calls') = 1
                /\ CallsOf(calls', "set_material") # {} =>
                      /\ LastLogged = "translate"
                      /\ Len(calls') = 1
                /\ CallsOf(calls', "save_as_mainfile") # {} =>
                      Count(log, "colour") = Len(asm.spec.parts)
                /\ CallsOf(calls', "upload_file") # {} => Count(log, "save") = 1
                /\ CallsOf(calls', "set_task_state") # {} => LastLogged = "upload" ]_vars

\* C19 witness: a build of two operations, the first with one recognized rotate
\* entry, that went through to set_task_state
C19_Witness ==
    /\ pc = "next_job"
    /\ log = <<"download", "import", "rotate", "translate", "colour",
               "download", "import", "translate", "colour", "save", "upload", "task">>

\* C21: the uploads of a build hand the scene file the build saved to upload_file
\* and no other file of the job's directory; no other file is counted either.
C21_UploadsOnlyTheSavedScene ==
    [][ (asm.active /\ pc = "upload") =>
          /\ \A i \in CallsOf(calls', "upload_file") :
                calls'[i].arg = <<asm.job_id, asm.name \o DotBlend>>
          /\ up'.count <= 1 ]_vars

----------------------------------------------------------------------------
(* Further properties of _move. *)

\* the state <<offset, extents>> after n passes of the while loop of the swap
\* function that _move calls for `axis`
SubSteps(axis, n, rotation, rotmax) ==
    IF axis = "x" THEN _swap_yz_(rotation, n, rotmax)
    ELSE IF axis = "y" THEN _swap_xz_(rotation, n, rotmax)
    ELSE _swap_xy_(rotation, n, rotmax)

\* the extents are the original rotmax in some order, and each offset component
\* lies between 0 and the extent of its axis
InsideExtents(st, rotmax0) ==
    /\ \E p \in Permutations({1, 2, 3}) : \A k \in 1..3 : st[2][k] = rotmax0[p[k]]
    /\ \A k \in 1..3 : 0 <= st[1][k] /\ st[1][k] <= st[2][k]

\* C22: for non-negative rotmax, after every sub-step of every rotate entry the
\* extents are a permutation of the original rotmax and each offset component lies
\* between 0 and the extents component of its axis.
C22_OffsetStaysInsideExtents ==
    [][ (pc = "move" /\ \A k \in 1..3 : mv.rotmax0[k] >= 0) =>
          /\ InsideExtents(<<mv'.rotation, mv'.rotmax>>, mv.rotmax0)
          /\ (mv.idx <= Len(mv.rotate) /\ mv.rotate[mv.idx].axis \in {"x", "y", "z"}) =>
                /\ \A n \in 1..ROT_STEPS :
                      InsideExtents(SubSteps(mv.rotate[mv.idx].axis, n, mv.rotation, mv.rotmax),
                                    mv.rotmax0)
                /\ <<mv'.rotation, mv'.rotmax>> =
                      SubSteps(mv.rotate[mv.idx].axis, ROT_STEPS, mv.rotation, mv.rotmax) ]_vars

\* C22 witness: z then x on extents (1, 2, 5): offset (2, 5, 0) inside (2, 5, 1)
C22_Witness ==
    /\ pc = "move"
    /\ mv.idx = 3
    /\ mv.rotate = <<[axis |-> "z"], [axis |-> "x"]>>
    /\ mv.rotmax0 = <<1, 2, 5>>
    /\ mv.rotation = <<2, 5, 0>>
    /\ mv.rotmax = <<2, 5, 1>>

\* <<offset, extents>> after n rotate entries about `axis`, as _move processes them
RECURSIVE Entries(_, _, _, _)
Entries(axis, n, rotation, rotmax) ==
    IF n = 0 THEN <<rotation, rotmax>>
    ELSE LET res == MoveItemResult([axis |-> axis], rotation, rotmax)
         IN Entries(axis, n - 1, res[1], res[2])

\* <<offset, extents>> after the rotate list r, as _move processes it
RECURSIVE AfterList(_, _, _)
AfterList(r, rotation, rotmax) ==
    IF r = <<>> THEN <<rotation, rotmax>>
    ELSE LET res == MoveItemResult(r[1], rotation, rotmax)
         IN AfterList(Tail(r), res[1], res[2])

\* the last four entries processed are about one and the same axis x, y or z
FourAlike ==
    /\ pc = "move"
    /\ mv.idx >= 5
    /\ mv.rotate[mv.idx - 1].axis \in {"x", "y", "z"}
    /\ \A j \in (mv.idx - 4)..(mv.idx - 2) : mv.rotate[j].axis = mv.rotate[mv.idx - 1].axis

\* C23: four rotate entries in a row about the same axis leave offset and extents
\* as they were before the four, from any offset and any extents, while 1, 2 or 3
\* entries need not (about x, from offset 0 on extents (1, 2, 5), they do not).
C23_FourEntriesAreTheIdentity ==
    /\ FourAlike =>
           <<mv.rotation, mv.rotmax>> =
               AfterList(SubSeq(mv.rotate, 1, mv.idx - 5), <<0, 0, 0>>, mv.rotmax0)
    /\ MoveOver =>
           \A axis \in {"x", "y", "z"} :
              Entries(axis, 4, mv.rotation, mv.rotmax) = <<mv.rotation, mv.rotmax>>
    /\ (pc = "move" /\ mv.rotate = <<>> /\ mv.position = <<0, 0, 0>>) =>
           \A axis \in {"x", "y", "z"} :
              \A off \in (0..MaxExtent) \X (0..MaxExtent) \X (0..MaxExtent) :
                 Entries(axis, 4, off, mv.rotmax) = <<off, mv.rotmax>>
    /\ \A n \in 1..3 :
           Entries("x", n, <<0, 0, 0>>, <<1, 2, 5>>) # << <<0, 0, 0>>, <<1, 2, 5>> >>

\* C23 witness: z, then x four times, on extents (1, 2, 5): offset and extents
\* are those after the z alone
C23_Witness ==
    /\ pc = "move"
    /\ mv.rotate = RoundTrip(<<[axis |-> "z"], [axis |-> "x"]>>)
    /\ mv.idx = 6
    /\ mv.rotmax0 = <<1, 2, 5>>
    /\ mv.rotation = <<2, 0, 0>>
    /\ mv.rotmax = <<2, 1, 5>>

----------------------------------------------------------------------------
(* A further property of download_artifacts. *)

\* C24: no local file holds the body of an error answer: download_artifacts
\* writes a file only with the body of an artifact GET that succeeded.
C24_NoErrorBodyStored ==
    \A path \in DOMAIN fs : fs[path].kind # "error"

====
